---------------------------- MODULE Spec2Model ----------------------------
(***************************************************************************)
(* Model of the Nessie charm (src/src/charm.py): a Juju operator that      *)
(* reacts to lifecycle events and converges the Pebble plan of the         *)
(* "nessie" container to the layer derived from the postgres relation.     *)
(*                                                                         *)
(* Strings the code takes apart or concatenates are sequences of tokens    *)
(* (single characters for relation values, whole literals for the fixed    *)
(* parts), so that split and "+" are computed, not assumed.                *)
(***************************************************************************)
EXTENDS Integers, Sequences, FiniteSets, TLC

VARIABLES
    relations,        \* database.fetch_relation_data(): bags in iteration order
    canConnect,       \* container.can_connect()
    config,           \* self.config["webui-port"]
    log_level,        \* self.config["log-level"], an option no handler reads
    plan,             \* the "nessie" layer held by Pebble (get_plan() reads its services)
    status,           \* self.unit.status
    openedPorts,      \* ports opened with unit.set_ports
    workloadVersion,  \* last value given to unit.set_workload_version
    db_data,          \* outcome of the latest fetch_postgres_relation_data call
    last              \* what the latest handler invocation did

vars == <<relations, canConnect, config, log_level, plan, status, openedPorts,
          workloadVersion, db_data, last>>

-----------------------------------------------------------------------------
(* Bounds of the model *)

\* longest endpoints string drawn for the parameter-derivation specification
MaxLen == 3
\* most relations in one relation snapshot
MaxRelations == 2

-----------------------------------------------------------------------------
(* Values *)

Chars == {"h", ":"}

Strings(n) == UNION {[1..k -> Chars] : k \in 0..n}

Keys == {"endpoints", "username", "password"}

EmptyBag == [k \in {} |-> <<>>]

\* the empty string "" and a one-character string
Users == {<<>>, <<"u">>}
Passwords == {<<"p">>, <<"q">>}

Ports == {8080, 9090}

VALID_LOG_LEVELS == {"info", "debug", "warning", "error", "critical"}

\* a level of the enumerated set and one outside it
LogLevels == {"info", "trace"}

pebble_service_name == "nessie-service"

database_name == <<"names_db">>

-----------------------------------------------------------------------------
(* str.split(sep) with no maxsplit: every occurrence of sep separates *)

\* mutant: str.split(sep, 1), one split at the first separator
split_MaxSplit1(s, sep) ==
    IF \A i \in 1..Len(s) : s[i] # sep
    THEN <<s>>
    ELSE LET i == CHOOSE j \in 1..Len(s) :
                      /\ s[j] = sep
                      /\ \A m \in 1..(j - 1) : s[m] # sep
         IN  <<SubSeq(s, 1, i - 1), SubSeq(s, i + 1, Len(s))>>

RECURSIVE split(_, _)
split(s, sep) ==
    IF \A i \in 1..Len(s) : s[i] # sep
    THEN <<s>>
    ELSE LET i == CHOOSE j \in 1..Len(s) :
                      /\ s[j] = sep
                      /\ \A m \in 1..(j - 1) : s[m] # sep
         IN  <<SubSeq(s, 1, i - 1)>> \o split(SubSeq(s, i + 1, Len(s)), sep)

-----------------------------------------------------------------------------
(* fetch_postgres_relation_data *)

NoData == [db_host |-> <<>>, db_port |-> <<>>, db_username |-> <<>>,
           db_password |-> <<>>, db_database |-> <<>>]

Raise(exc, st) == [raised |-> exc, value |-> NoData, status |-> st]

\* the body of the loop for a non-empty bag: lines 115-124
ParseBag(data, st) ==
    IF "endpoints" \notin DOMAIN data THEN Raise("KeyError", st)
    ELSE LET parts == split(data["endpoints"], ":") IN
         IF Len(parts) # 2 THEN Raise("ValueError", st)
         ELSE IF "username" \notin DOMAIN data THEN Raise("KeyError", st)
         ELSE IF "password" \notin DOMAIN data THEN Raise("KeyError", st)
         ELSE [raised |-> "none",
               value  |-> [db_host     |-> parts[1],
                           db_port     |-> parts[2],
                           db_username |-> data["username"],
                           db_password |-> data["password"],
                           db_database |-> database_name],
               status |-> st]

\* mutant: the Waiting status is not set before DatabaseNotReady is raised
RECURSIVE ScanRelations_NoStatus(_, _, _)
ScanRelations_NoStatus(rels, i, st) ==
    IF i > Len(rels)
    THEN Raise("DatabaseNotReady", st)
    ELSE IF DOMAIN rels[i] = {}
         THEN ScanRelations_NoStatus(rels, i + 1, st)
         ELSE ParseBag(rels[i], st)

\* mutant: the loop keeps going and the last non-empty bag wins
RECURSIVE ScanRelations_LastBag(_, _, _)
ScanRelations_LastBag(rels, i, st) ==
    IF i > Len(rels)
    THEN Raise("DatabaseNotReady", "waiting")
    ELSE IF DOMAIN rels[i] = {}
         THEN ScanRelations_LastBag(rels, i + 1, st)
         ELSE LET rest == ScanRelations_LastBag(rels, i + 1, st)
              IN  IF rest.raised = "DatabaseNotReady"
                  THEN ParseBag(rels[i], st)
                  ELSE rest

RECURSIVE ScanRelations(_, _, _)
ScanRelations(rels, i, st) ==
    IF i > Len(rels)
    THEN Raise("DatabaseNotReady", "waiting")
    ELSE IF DOMAIN rels[i] = {}
         THEN ScanRelations(rels, i + 1, st)
         ELSE ParseBag(rels[i], st)

fetch_postgres_relation_data(rels, st) == ScanRelations(rels, 1, st)

-----------------------------------------------------------------------------
(* app_environment and _pebble_layer: both read the relation data anew *)

NoEnv == [NESSIE_VERSION_STORE_TYPE   |-> <<>>,
          QUARKUS_DATASOURCE_JDBC_URL |-> <<>>,
          DEMO_SERVER_DB_HOST         |-> <<>>,
          DEMO_SERVER_DB_PORT         |-> <<>>,
          QUARKUS_DATASOURCE_USERNAME |-> <<>>,
          QUARKUS_DATASOURCE_PASSWORD |-> <<>>]

\* mutant: the port is left out of the URL
jdbc_url_NoPort(d) ==
    <<"jdbc:postgresql://">> \o d.db_host \o <<"/">> \o d.db_database

\* "jdbc:postgresql://" + db_host + ":" + db_port + "/" + db_database
jdbc_url(d) ==
    <<"jdbc:postgresql://">> \o d.db_host \o <<":">>
        \o d.db_port \o <<"/">> \o d.db_database

app_environment(rels, st) ==
    LET f == fetch_postgres_relation_data(rels, st)
        d == f.value
    IN  IF f.raised # "none"
        THEN [raised |-> f.raised, env |-> NoEnv, status |-> f.status]
        ELSE [raised |-> "none",
              env |-> [NESSIE_VERSION_STORE_TYPE   |-> <<"JDBC">>,
                       QUARKUS_DATASOURCE_JDBC_URL |-> jdbc_url(d),
                       DEMO_SERVER_DB_HOST         |-> d.db_host,
                       DEMO_SERVER_DB_PORT         |-> d.db_port,
                       QUARKUS_DATASOURCE_USERNAME |-> d.db_username,
                       QUARKUS_DATASOURCE_PASSWORD |-> d.db_password],
              status |-> f.status]

NoServices == [n \in {} |-> NoEnv]

EmptyPlan == [summary |-> "", description |-> "", services |-> NoServices]

ServicesOf(env) ==
    [n \in {pebble_service_name} |->
        [override    |-> "replace",
         summary     |-> "nessie",
         command     |-> "printenv",
         startup     |-> "enabled",
         environment |-> env]]

_pebble_layer(rels, st) ==
    LET e == app_environment(rels, st)
    IN  IF e.raised # "none"
        THEN [raised |-> e.raised, layer |-> EmptyPlan, status |-> e.status]
        ELSE [raised |-> "none",
              layer  |-> [summary     |-> "nessie layer",
                          description |-> "pebble config layer for nessie",
                          services    |-> ServicesOf(e.env)],
              status |-> e.status]

-----------------------------------------------------------------------------
(* The Pebble side: plan, layers, services *)

\* container.get_plan().to_dict().get("services", {})
PlanServices(pl) == pl.services

\* mutant: the layer already in the plan is kept
add_layer_KeepsOld(pl, layer) == pl

\* container.add_layer("nessie", layer, combine=True): the service is
\* declared with override "replace", so the new layer supersedes the old one
add_layer(pl, layer) == layer

\* mutant: the layer is installed on every run
LayerChanged_Always(pl, layer) == TRUE

\* mutant: the plan is never found to differ
LayerChanged_Never(pl, layer) == FALSE

\* mutant: the whole layer is compared, summary and description included
LayerChanged_WholeLayer(pl, layer) == pl # layer

\* services != new_layer["services"]: only the services are compared
LayerChanged(pl, layer) == PlanServices(pl) # layer.services

\* mutant: Pebble is taken to be reachable without asking
can_connect_Always(cc) == TRUE

\* self.container.can_connect()
can_connect(cc) == cc

\* _request_version: the HTTP request is commented out, the answer is fixed
_request_version == [raised |-> FALSE, value |-> "1.0"]

\* mutant: the version is asked for without looking at Pebble
version_IgnoresPebble(cc, pl) ==
    IF _request_version.raised THEN "" ELSE _request_version.value

\* the version property: the probe runs only with Pebble reachable and the
\* service known to it, and an exception of the probe gives ""
version(cc, pl) ==
    IF can_connect(cc) /\ pebble_service_name \in DOMAIN PlanServices(pl)
    THEN IF _request_version.raised THEN "" ELSE _request_version.value
    ELSE ""

\* mutant: the port is read but never declared
_handle_ports_NotApplied(cfg) == {}

\* _handle_ports: port = int(config["webui-port"]); unit.set_ports(port)
\* declares exactly the given port
_handle_ports(cfg) == {cfg}

-----------------------------------------------------------------------------
(* Relation data the events are delivered with *)

GoodEndpoints == <<"h", ":", "h">>

EventBags ==
    {EmptyBag}
    \cup [endpoints : {GoodEndpoints}, username : {<<"u">>}, password : Passwords]
    \* host, port and username empty
    \cup [endpoints : {<<":">>}, username : {<<>>}, password : {<<"p">>}]
    \* several colons
    \cup [endpoints : {<<"h", ":", "h", ":", "h">>},
          username : {<<"u">>}, password : {<<"p">>}]
    \* a bag the provider has not finished writing
    \cup [endpoints : {GoodEndpoints}]

\* relation data for the parameter derivation taken alone: every endpoints
\* string up to MaxLen, and a bag without endpoints
FetchBags ==
    {EmptyBag}
    \cup [endpoints : Strings(MaxLen), username : {<<"u">>}, password : Passwords]
    \cup [username : {<<"u">>}, password : Passwords]

Snapshots(bags) == UNION {[1..k -> bags] : k \in 0..MaxRelations}

\* a plan left in Pebble by an earlier revision of the charm
LegacyPlans ==
    {[summary     |-> "legacy layer",
      description |-> "",
      services    |-> _pebble_layer(<<b>>, "unknown").layer.services] :
        b \in [endpoints : {GoodEndpoints}, username : {<<"u">>}, password : {<<"p">>}]}

-----------------------------------------------------------------------------
(* State *)

NotCalled == [raised |-> "NotCalled", value |-> NoData]

\* no handler outcome is current: the surroundings changed since
Idle == [handler |-> "none", raised |-> "none", installed |-> FALSE,
         restarted |-> FALSE, replanned |-> FALSE, versionSet |-> FALSE,
         steps |-> <<>>]

Outcome(h, exc, inst, rest, repl, ver) ==
    [handler |-> h, raised |-> exc, installed |-> inst,
     restarted |-> rest, replanned |-> repl, versionSet |-> ver,
     steps |-> <<>>]

\* the statements an invocation went through, in the order it ran them
Ran(o, steps) == [o EXCEPT !.steps = steps]

\* mutant: the service is restarted before the new layer is added
InstallSteps_RestartFirst == <<"derive", "build", "restart", "install">>

\* lines 190-193: self._pebble_layer is evaluated again as the argument of
\* add_layer, then the service is restarted
InstallSteps == <<"derive", "build", "install", "restart">>

\* mutant: the workload version is reported before the plan is compared
ReconcileSteps_VersionFirst(changed) ==
    <<"maintenance", "can_connect", "derive", "build", "version", "compare">>
        \o (IF changed THEN InstallSteps ELSE <<>>)
        \o <<"report">>

\* the statements of _update_layer_and_restart once the layer is built
ReconcileSteps(changed) ==
    <<"maintenance", "can_connect", "derive", "build", "compare">>
        \o (IF changed THEN InstallSteps ELSE <<>>)
        \o <<"version", "report">>

Fetched(f) == [raised |-> f.raised, value |-> f.value]

TypeOK ==
    /\ relations \in Snapshots(EventBags)
    /\ canConnect \in BOOLEAN
    /\ config \in Ports
    /\ log_level \in LogLevels
    /\ status \in {"unknown", "active", "waiting", "maintenance", "blocked"}
    /\ openedPorts \subseteq Ports
    /\ workloadVersion \in {"", "1.0"}
    /\ last.handler \in {"none", "pebble_ready", "config_changed",
                         "database_created", "database_relation_broken"}

Init ==
    /\ relations = <<>>
    /\ canConnect = FALSE
    /\ config \in Ports
    /\ log_level = "info"
    /\ plan \in {EmptyPlan} \cup LegacyPlans
    /\ status = "unknown"
    /\ openedPorts = {}
    /\ workloadVersion = version(canConnect, plan)
    /\ db_data = NotCalled
    /\ last = Idle

-----------------------------------------------------------------------------
(* The surroundings: relation data, Pebble reachability, configuration *)

\* the surroundings changed: no handler outcome is current any more
Forget ==
    /\ db_data' = NotCalled
    /\ last' = Idle

\* a relation is established; its bag starts empty
RelationJoined ==
    /\ Len(relations) < MaxRelations
    /\ relations' = Append(relations, EmptyBag)
    /\ Forget
    /\ UNCHANGED <<canConnect, config, log_level, plan, status, openedPorts, workloadVersion>>

\* the provider rewrites the bag of one relation
RelationChanged ==
    /\ \E i \in 1..Len(relations), b \in EventBags :
          /\ b # relations[i]
          /\ relations' = [relations EXCEPT ![i] = b]
    /\ Forget
    /\ UNCHANGED <<canConnect, config, log_level, plan, status, openedPorts, workloadVersion>>

\* a relation goes away, the others keep their order
RelationDeparted ==
    /\ \E i \in 1..Len(relations) :
          relations' = SubSeq(relations, 1, i - 1)
                           \o SubSeq(relations, i + 1, Len(relations))
    /\ Forget
    /\ UNCHANGED <<canConnect, config, log_level, plan, status, openedPorts, workloadVersion>>

PebbleConnectivityChanged ==
    /\ canConnect' = ~canConnect
    /\ Forget
    /\ UNCHANGED <<relations, config, log_level, plan, status, openedPorts, workloadVersion>>

ConfigSet ==
    /\ \E p \in Ports, lv \in LogLevels :
          /\ <<p, lv>> # <<config, log_level>>
          /\ config' = p
          /\ log_level' = lv
    /\ Forget
    /\ UNCHANGED <<relations, canConnect, plan, status, openedPorts, workloadVersion>>

-----------------------------------------------------------------------------
(* Handlers.  The framework constructs the charm for every event, so each  *)
(* handler starts with __init__'s set_workload_version(self.version).      *)

\* mutant: the handler also drops the layer from the plan
OnDatabaseRelationRemoved_DropsLayer ==
    /\ status' = "waiting"
    /\ plan' = EmptyPlan
    /\ workloadVersion' = version(canConnect, plan)
    /\ db_data' = NotCalled
    /\ last' = Outcome("database_relation_broken", "none", FALSE, FALSE, FALSE, FALSE)
    /\ UNCHANGED <<relations, canConnect, config, log_level, openedPorts>>

\* _on_database_relation_removed
OnDatabaseRelationRemoved ==
    /\ status' = "waiting"
    /\ workloadVersion' = version(canConnect, plan)
    /\ db_data' = NotCalled
    /\ last' = Outcome("database_relation_broken", "none", FALSE, FALSE, FALSE, FALSE)
    /\ UNCHANGED <<relations, canConnect, config, log_level, plan, openedPorts>>

\* mutant: the handler reports Waiting when Pebble cannot be reached
OnConfigChanged_WaitsForPebble ==
    /\ openedPorts' = _handle_ports(config)
    /\ status' = IF canConnect THEN status ELSE "waiting"
    /\ workloadVersion' = version(canConnect, plan)
    /\ db_data' = NotCalled
    /\ last' = Outcome("config_changed", "none", FALSE, FALSE, FALSE, FALSE)
    /\ UNCHANGED <<relations, canConnect, config, log_level, plan>>

\* _on_config_changed
OnConfigChanged ==
    /\ openedPorts' = _handle_ports(config)
    /\ workloadVersion' = version(canConnect, plan)
    /\ db_data' = NotCalled
    /\ last' = Outcome("config_changed", "none", FALSE, FALSE, FALSE, FALSE)
    /\ UNCHANGED <<relations, canConnect, config, log_level, plan, status>>

\* _on_nessie_pebble_ready: the layer is built (and may raise) before
\* add_layer is called; add_layer needs Pebble
OnPebbleReady ==
    LET l == _pebble_layer(relations, status)
    IN  /\ db_data' = Fetched(fetch_postgres_relation_data(relations, status))
        /\ workloadVersion' = version(canConnect, plan)
        /\ IF l.raised # "none"
           THEN /\ status' = l.status
                /\ plan' = plan
                /\ last' = Ran(Outcome("pebble_ready", l.raised,
                                       FALSE, FALSE, FALSE, FALSE),
                               <<"derive">>)
           ELSE IF ~canConnect
           THEN /\ status' = l.status
                /\ plan' = plan
                /\ last' = Ran(Outcome("pebble_ready", "ConnectionError",
                                       FALSE, FALSE, FALSE, FALSE),
                               <<"derive", "build">>)
           ELSE /\ plan' = add_layer(plan, l.layer)
                /\ status' = "active"
                /\ last' = Ran(Outcome("pebble_ready", "none",
                                       TRUE, FALSE, TRUE, FALSE),
                               <<"derive", "build", "install", "replan", "report">>)
        /\ UNCHANGED <<relations, canConnect, config, log_level, openedPorts>>

\* _update_layer_and_restart, called by _on_database_created
\* (database_created and endpoints_changed)
_update_layer_and_restart ==
    IF can_connect(canConnect)
    THEN LET l == _pebble_layer(relations, "maintenance")
         IN  /\ db_data' = Fetched(fetch_postgres_relation_data(relations, "maintenance"))
             /\ IF l.raised = "DatabaseNotReady"
                THEN /\ status' = "waiting"
                     /\ plan' = plan
                     /\ workloadVersion' = version(canConnect, plan)
                     /\ last' = Ran(Outcome("database_created", "none",
                                            FALSE, FALSE, FALSE, FALSE),
                                    <<"maintenance", "can_connect", "derive", "report">>)
                ELSE IF l.raised # "none"
                THEN /\ status' = l.status
                     /\ plan' = plan
                     /\ workloadVersion' = version(canConnect, plan)
                     /\ last' = Ran(Outcome("database_created", l.raised,
                                            FALSE, FALSE, FALSE, FALSE),
                                    <<"maintenance", "can_connect", "derive">>)
                ELSE LET changed == LayerChanged(plan, l.layer)
                         \* the second evaluation of self._pebble_layer
                         l2 == _pebble_layer(relations, l.status)
                     IN  /\ plan' = IF changed THEN add_layer(plan, l2.layer) ELSE plan
                         /\ workloadVersion' = version(canConnect, plan')
                         /\ status' = "active"
                         /\ last' = Ran(Outcome("database_created", "none",
                                                changed, changed, FALSE, TRUE),
                                        ReconcileSteps(changed))
    ELSE /\ status' = "waiting"
         /\ plan' = plan
         /\ workloadVersion' = version(canConnect, plan)
         /\ db_data' = NotCalled
         /\ last' = Ran(Outcome("database_created", "none", FALSE, FALSE, FALSE, FALSE),
                        <<"maintenance", "can_connect", "report">>)

OnDatabaseCreated ==
    /\ _update_layer_and_restart
    /\ UNCHANGED <<relations, canConnect, config, log_level, openedPorts>>

-----------------------------------------------------------------------------

Next ==
    \/ RelationJoined
    \/ RelationChanged
    \/ RelationDeparted
    \/ PebbleConnectivityChanged
    \/ ConfigSet
    \/ OnPebbleReady
    \/ OnConfigChanged
    \/ OnDatabaseCreated
    \/ OnDatabaseRelationRemoved

Spec == Init /\ [][Next]_vars

-----------------------------------------------------------------------------
(* The parameter derivation taken alone: any relation snapshot, one call   *)

InitFetch ==
    /\ relations \in Snapshots(FetchBags)
    /\ canConnect = FALSE
    /\ config = 8080
    /\ log_level = "info"
    /\ plan = EmptyPlan
    /\ status \in {"unknown", "maintenance"}
    /\ openedPorts = {}
    /\ workloadVersion = ""
    /\ db_data = NotCalled
    /\ last = Idle

DeriveConnectionParameters ==
    /\ db_data = NotCalled
    /\ LET f == fetch_postgres_relation_data(relations, status)
       IN  /\ db_data' = Fetched(f)
           /\ status' = f.status
    /\ UNCHANGED <<relations, canConnect, config, log_level, plan, openedPorts,
                   workloadVersion, last>>

NextFetch == DeriveConnectionParameters

SpecFetch == InitFetch /\ [][NextFetch]_vars

-----------------------------------------------------------------------------
(* Properties *)

NoNonEmptyBag(rels) == \A i \in 1..Len(rels) : DOMAIN rels[i] = {}

FirstNonEmpty(rels) ==
    CHOOSE i \in 1..Len(rels) :
        /\ DOMAIN rels[i] # {}
        /\ \A j \in 1..(i - 1) : DOMAIN rels[j] = {}

NoInstallNoRestart(o) == ~o.installed /\ ~o.restarted /\ ~o.replanned

\* C1: whatever the state before, a database-relation-broken event ends with
\* status Waiting, leaves the installed plan as it was and requests neither
\* an install nor a restart nor a replan
C1_RelationBrokenWaits ==
    [][last'.handler = "database_relation_broken"
          => /\ status' = "waiting"
             /\ plan' = plan
             /\ NoInstallNoRestart(last')
             /\ last'.raised = "none"]_vars

\* C1 witness: the event was handled with a descriptor installed, Pebble
\* unreachable and relation data present
C1_Witness ==
    /\ last.handler = "database_relation_broken"
    /\ status = "waiting"
    /\ pebble_service_name \in DOMAIN PlanServices(plan)
    /\ ~canConnect
    /\ ~NoNonEmptyBag(relations)

\* C2: a workload-ready event handled while no relation bag is non-empty
\* ends with status Waiting, installs nothing into the plan and requests no
\* restart and no replan
C2_PebbleReadyWithoutData ==
    [][(last'.handler = "pebble_ready" /\ NoNonEmptyBag(relations))
          => /\ status' = "waiting"
             /\ plan' = plan
             /\ NoInstallNoRestart(last')]_vars

\* C2 witness: workload-ready was handled with Pebble reachable and only an
\* empty bag in the relation snapshot
C2_Witness ==
    /\ last.handler = "pebble_ready"
    /\ Len(relations) > 0
    /\ NoNonEmptyBag(relations)
    /\ canConnect
    /\ status = "waiting"

\* C3: no handler lets an exception cross its boundary: every invocation
\* returns normally
C3_NoExceptionEscapes == last.raised = "none"

\* C6: the derivation raises DatabaseNotReady, with status Waiting, exactly
\* when no bag is non-empty; otherwise its outcome is the outcome for the
\* first non-empty bag taken alone, and a result names the database names_db
C6_FirstNonEmptyBag ==
    db_data.raised # "NotCalled" =>
        IF NoNonEmptyBag(relations)
        THEN /\ db_data.raised = "DatabaseNotReady"
             /\ status = "waiting"
        ELSE /\ db_data.raised # "DatabaseNotReady"
             /\ db_data = Fetched(ParseBag(relations[FirstNonEmpty(relations)], status))
             /\ db_data.raised = "none" => db_data.value.db_database = <<"names_db">>

\* C6 witness: two different non-empty bags, the result comes from the first
C6_Witness ==
    /\ db_data.raised = "none"
    /\ Len(relations) = 2
    /\ DOMAIN relations[1] = Keys
    /\ DOMAIN relations[2] = Keys
    /\ relations[1].endpoints # relations[2].endpoints
    /\ relations[1].password # relations[2].password
    /\ db_data.value.db_password = relations[1].password

ColonCount(e) == Cardinality({i \in 1..Len(e) : e[i] = ":"})

FirstColon(e) ==
    CHOOSE i \in 1..Len(e) : e[i] = ":" /\ \A j \in 1..(i - 1) : e[j] # ":"

BeforeFirstColon(e) == SubSeq(e, 1, FirstColon(e) - 1)

AfterFirstColon(e) == SubSeq(e, FirstColon(e) + 1, Len(e))

\* the first non-empty bag carries endpoints, username and password
FirstBagComplete ==
    /\ db_data.raised # "NotCalled"
    /\ ~NoNonEmptyBag(relations)
    /\ DOMAIN relations[FirstNonEmpty(relations)] = Keys

\* C7 as stated: every endpoints string with a colon is split once at its
\* first colon, several colons included, and yields a host and a port
C7_SplitAtFirstColon ==
    FirstBagComplete =>
        LET e == relations[FirstNonEmpty(relations)].endpoints
        IN  ColonCount(e) >= 1 =>
                /\ db_data.raised = "none"
                /\ db_data.value.db_host = BeforeFirstColon(e)
                /\ db_data.value.db_port = AfterFirstColon(e)

\* C7 amended: with exactly one colon the host is what precedes it and the
\* port what follows it; with no colon or several colons the derivation
\* fails with ValueError and yields neither
C7_SplitExactlyOneColon ==
    FirstBagComplete =>
        LET e == relations[FirstNonEmpty(relations)].endpoints
        IN  IF ColonCount(e) = 1
            THEN /\ db_data.raised = "none"
                 /\ db_data.value.db_host = BeforeFirstColon(e)
                 /\ db_data.value.db_port = AfterFirstColon(e)
            ELSE /\ db_data.raised = "ValueError"
                 /\ db_data.value = NoData

\* C7 witness: "h:h" was split into host "h" and port "h"
C7_Witness ==
    /\ FirstBagComplete
    /\ relations[FirstNonEmpty(relations)].endpoints = <<"h", ":", "h">>
    /\ db_data.value.db_host = <<"h">>
    /\ db_data.value.db_port = <<"h">>

\* the layer the relation data of the moment asks for
Desired == _pebble_layer(relations, status)

DesiredIsInstalled ==
    /\ Desired.raised = "none"
    /\ PlanServices(plan) = Desired.layer.services

\* C4 as stated: a second database-created run on unchanged surroundings
\* installs and restarts nothing and both runs end Active, and no handler
\* at all installs or restarts when the desired descriptor is the installed one
C4_NoHandlerInstallsWhenEqual ==
    [][/\ (last.handler = "database_created" /\ last'.handler = "database_created")
             => /\ ~last'.installed /\ ~last'.restarted
                /\ status = "active" /\ status' = "active"
       /\ (last'.handler # "none" /\ DesiredIsInstalled)
             => ~last'.installed /\ ~last'.restarted]_vars

\* C4 amended: a second database-created run on unchanged surroundings
\* installs and restarts nothing, and both runs end Active when Pebble is
\* reachable and the parameters can be derived; the database-created handler
\* never installs or restarts when the desired descriptor is the installed
\* one; the workload-ready handler installs and replans whenever it
\* completes, equal or not
C4_DatabaseCreatedIdempotent ==
    [][/\ (last.handler = "database_created" /\ last'.handler = "database_created")
             => /\ ~last'.installed /\ ~last'.restarted
                /\ (canConnect /\ Desired.raised = "none")
                       => status = "active" /\ status' = "active"
       /\ (last'.handler = "database_created" /\ DesiredIsInstalled)
             => /\ ~last'.installed /\ ~last'.restarted
                /\ plan' = plan
       /\ (last'.handler = "pebble_ready" /\ last'.raised = "none")
             => /\ last'.installed /\ last'.replanned
                /\ plan' = Desired.layer]_vars

\* C4 witness: a database-created run found the layer of this charm already
\* installed, left it alone and ended Active
C4_Witness ==
    /\ last.handler = "database_created"
    /\ ~last.installed
    /\ ~last.restarted
    /\ status = "active"
    /\ plan.summary = "nessie layer"
    /\ DesiredIsInstalled

FullyPresent(d) ==
    /\ d.db_host # <<>>
    /\ d.db_port # <<>>
    /\ d.db_username # <<>>
    /\ d.db_password # <<>>
    /\ d.db_database # <<>>

\* C5: a descriptor is installed only when the connection parameters it is
\* built from are fully present: host, port, username, password and database
\* name all non-empty
C5_InstalledOnlyWhenFullyPresent ==
    last.installed => /\ db_data.raised = "none"
                      /\ FullyPresent(db_data.value)

\* C8: with Pebble reachable and the parameters derivable, the
\* database-created handler installs the desired layer, restarts the service
\* and updates the workload version when the services of the plan differ
\* from the desired ones, and installs and restarts nothing when they are
\* equal, whatever summary and description say
C8_ReconcileComparesServices ==
    [][(last'.handler = "database_created" /\ canConnect /\ Desired.raised = "none")
          => IF PlanServices(plan) # Desired.layer.services
             THEN /\ plan' = Desired.layer
                  /\ last'.installed /\ last'.restarted
                  /\ last'.versionSet
                  /\ workloadVersion' = "1.0"
                  /\ status' = "active"
             ELSE /\ plan' = plan
                  /\ ~last'.installed /\ ~last'.restarted]_vars

\* C8 witness: the plan holds a layer with another summary and the same
\* services; the database-created handler left it in place
C8_Witness ==
    /\ last.handler = "database_created"
    /\ canConnect
    /\ DesiredIsInstalled
    /\ plan.summary # Desired.layer.summary
    /\ ~last.installed
    /\ ~last.restarted

\* C9 as stated: a configuration-changed event applies the port, reinstalls
\* the descriptor when Pebble is reachable and ends Waiting when it is not
C9_ConfigChangedReinstalls ==
    last.handler = "config_changed"
        => /\ openedPorts = {config}
           /\ canConnect => last.installed
           /\ ~canConnect => status = "waiting"

\* C9 amended: a configuration-changed event applies the declared port and
\* nothing else: no install, no restart, no replan, the plan and the status
\* stay as they were, Pebble reachable or not
C9_ConfigChangedOnlyPorts ==
    [][last'.handler = "config_changed"
          => /\ openedPorts' = {config}
             /\ plan' = plan
             /\ status' = status
             /\ NoInstallNoRestart(last')]_vars

\* C9 witness: the event was handled with Pebble unreachable and the status
\* is not Waiting
C9_Witness ==
    /\ last.handler = "config_changed"
    /\ ~canConnect
    /\ status = "active"
    /\ openedPorts = {config}

\* C10: after a configuration-changed event the opened port is the
\* configured one and the handler returned normally, relation data ready or
\* not, Pebble reachable or not
C10_PortAlwaysApplied ==
    last.handler = "config_changed"
        => /\ openedPorts = {config}
           /\ last.raised = "none"

\* C10 witness: the port was changed and applied with no relation at all and
\* Pebble unreachable
C10_Witness ==
    /\ last.handler = "config_changed"
    /\ relations = <<>>
    /\ ~canConnect
    /\ openedPorts = {9090}
    /\ config = 9090

\* C11: a database-created run with Pebble unreachable ends Waiting and does
\* nothing else: the relation data is not read, nothing is installed, no
\* restart is requested and the handler does not update the workload version
C11_UnreachableOnlyWaits ==
    [][(last'.handler = "database_created" /\ ~canConnect)
          => /\ status' = "waiting"
             /\ db_data' = NotCalled
             /\ plan' = plan
             /\ NoInstallNoRestart(last')
             /\ ~last'.versionSet
             /\ last'.raised = "none"
             /\ last'.steps = <<"maintenance", "can_connect", "report">>]_vars

\* C11 witness: the handler ran with Pebble unreachable while the relation
\* data asked for a layer that is not installed
C11_Witness ==
    /\ last.handler = "database_created"
    /\ ~canConnect
    /\ Desired.raised = "none"
    /\ PlanServices(plan) # Desired.layer.services
    /\ status = "waiting"

\* C12: a configuration-changed event handled with a log level outside the
\* enumerated set ends Blocked and installs no descriptor
C12_InvalidLogLevelBlocks ==
    (last.handler = "config_changed" /\ log_level \notin VALID_LOG_LEVELS)
        => /\ status = "blocked"
           /\ ~last.installed

InstalledEnvironment == PlanServices(plan)[pebble_service_name].environment

\* the first non-empty bag is complete and its endpoints read "H:P"
FirstBagHostPort ==
    /\ ~NoNonEmptyBag(relations)
    /\ DOMAIN relations[FirstNonEmpty(relations)] = Keys
    /\ ColonCount(relations[FirstNonEmpty(relations)].endpoints) = 1

C14_PebbleReadyInstalls ==
    (last.handler = "pebble_ready" /\ canConnect /\ Desired.raised = "none")
        => /\ last.raised = "none"
           /\ last.steps = <<"derive", "build", "install", "replan", "report">>
           /\ last.installed
           /\ last.replanned
           /\ plan = Desired.layer
           /\ status = "active"

\* C14 witness: workload-ready replaced a layer asking for another password
\* and ended Active
C14_Witness ==
    /\ last.handler = "pebble_ready"
    /\ canConnect
    /\ last.installed
    /\ last.replanned
    /\ status = "active"
    /\ pebble_service_name \in DOMAIN PlanServices(plan)
    /\ InstalledEnvironment.QUARKUS_DATASOURCE_PASSWORD = <<"q">>

\* the order the steps of one database-created invocation are said to follow
StepOrder == <<"maintenance", "can_connect", "derive", "build", "compare",
               "install", "restart", "version", "report">>

Rank(step) == CHOOSE i \in 1..Len(StepOrder) : StepOrder[i] = step

\* every step later in the run is later in StepOrder: none is visited twice
StrictlyForward(steps) ==
    \A i, j \in 1..Len(steps) : i < j => Rank(steps[i]) < Rank(steps[j])

Contains(steps, step) == \E i \in 1..Len(steps) : steps[i] = step

\* C15 as stated: a database-created invocation goes through its steps in
\* the fixed order and visits none twice, skips the rest when the database
\* is not ready, and never returns with status Maintenance
C15_StepsNeverRevisited ==
    last.handler = "database_created"
        => /\ StrictlyForward(last.steps)
           /\ (canConnect /\ Desired.raised = "DatabaseNotReady")
                 => last.steps = <<"maintenance", "can_connect", "derive", "report">>
           /\ last.raised = "none" => status \in {"active", "waiting"}

\* C15 amended: the steps run in the fixed order except that, when the plan
\* has to change, the parameters are derived and the layer is built a second
\* time between compare and install; the rest is skipped when Pebble is
\* unreachable or the database not ready, with status Waiting; every
\* invocation that returns leaves Active or Waiting, and one that is ended by
\* ValueError or KeyError stops after derive and leaves Maintenance
C15_StepsOfReconcile ==
    last.handler = "database_created"
        => IF ~canConnect
           THEN /\ last.steps = <<"maintenance", "can_connect", "report">>
                /\ status = "waiting" /\ last.raised = "none"
           ELSE IF Desired.raised = "DatabaseNotReady"
           THEN /\ last.steps = <<"maintenance", "can_connect", "derive", "report">>
                /\ status = "waiting" /\ last.raised = "none"
           ELSE IF Desired.raised # "none"
           THEN /\ last.steps = <<"maintenance", "can_connect", "derive">>
                /\ status = "maintenance" /\ last.raised = Desired.raised
           ELSE IF last.installed
           THEN /\ last.steps = <<"maintenance", "can_connect", "derive", "build",
                                  "compare", "derive", "build", "install",
                                  "restart", "version", "report">>
                /\ status = "active" /\ last.raised = "none"
           ELSE /\ last.steps = <<"maintenance", "can_connect", "derive", "build",
                                  "compare", "version", "report">>
                /\ status = "active" /\ last.raised = "none"

\* C15 witness: an invocation that changed the plan, with its second derive
C15_Witness ==
    /\ last.handler = "database_created"
    /\ last.installed
    /\ Len(last.steps) = Len(StepOrder) + 2
    /\ status = "active"

\* C16: the version reported by an invocation is empty whenever Pebble is
\* unreachable or the service is absent from the plan, and an invocation
\* that reaches the version update returns with status Active
C16_VersionProbeNeverBlocks ==
    last.handler # "none"
        => /\ (~canConnect \/ pebble_service_name \notin DOMAIN PlanServices(plan))
                 => workloadVersion = ""
           /\ last.versionSet => (status = "active" /\ last.raised = "none")

\* C16 witness: an event was handled with the service in the plan and Pebble
\* unreachable, and the reported version is empty
C16_Witness ==
    /\ last.handler = "database_created"
    /\ ~canConnect
    /\ pebble_service_name \in DOMAIN PlanServices(plan)
    /\ plan.summary = "nessie layer"
    /\ workloadVersion = ""

\* C17: whenever the database-created or the workload-ready handler runs to
\* its end and leaves status Active, the services of the installed plan are
\* the services the relation data of that moment asks for
C17_ActiveMeansConverged ==
    (/\ last.handler \in {"database_created", "pebble_ready"}
     /\ last.raised = "none"
     /\ status = "active")
        => /\ Desired.raised = "none"
           /\ PlanServices(plan) = ServicesOf(app_environment(relations, status).env)

\* C17 witness: the database-created handler replaced the plan, taking the
\* parameters from the second bag because the first is empty, and ended Active
C17_Witness ==
    /\ last.handler = "database_created"
    /\ last.installed
    /\ status = "active"
    /\ Len(relations) = 2
    /\ DOMAIN relations[1] = {}
    /\ InstalledEnvironment.QUARKUS_DATASOURCE_PASSWORD = relations[2].password

\* every occurrence of step b in the run comes after an occurrence of step a
Precedes(steps, a, b) ==
    \A j \in 1..Len(steps) :
        steps[j] = b => \E i \in 1..(j - 1) : steps[i] = a

\* C18: the database-created handler requests a restart exactly when it
\* installed a layer in the same invocation, the install comes first, and no
\* handler requests a restart or a replan without an install before it
C18_RestartOnlyAfterInstall ==
    /\ last.handler = "database_created"
          => /\ last.restarted <=> last.installed
             /\ last.installed <=> Contains(last.steps, "install")
             /\ last.restarted <=> Contains(last.steps, "restart")
    /\ (last.restarted \/ last.replanned) => last.installed
    /\ Precedes(last.steps, "install", "restart")
    /\ Precedes(last.steps, "install", "replan")

\* C18 witness: a database-created invocation installed a layer over another
\* one and restarted the service
C18_Witness ==
    /\ last.handler = "database_created"
    /\ last.restarted
    /\ Contains(last.steps, "restart")
    /\ workloadVersion = "1.0"
    /\ Len(relations) = 1

=============================================================================
